---- MODULE Spec2Model ----
(***************************************************************************)
(* Model of the FridgeManager component (src/unnamed/part_001) and of the  *)
(* storage API it calls (src/src/api/storage.ts).                          *)
(*                                                                         *)
(* One action is one handler, timer callback or promise continuation of    *)
(* the component together with the re-render and the effects that React    *)
(* runs after the handler's state updates.  Time is the remaining delay of *)
(* each pending setTimeout; the Tick action lets TickStep milliseconds     *)
(* pass.  Network requests take arbitrary time and may fail.               *)
(***************************************************************************)
EXTENDS Integers, Sequences, FiniteSets, TLC

(* ---------------- bounds of the model ---------------- *)
MaxOps == 2
MaxOpsIds == 3
MaxVal == 2
MaxInFlight == 2
TickStep == 250
RandomLevels == 1
MaxOpsForms == 2
MaxOpsRestart == 1
MaxSessions == 2
MaxReports == 1
MaxRenders == 1
MaxQuantity == 2
PartsPerDay == 3
Today == 2

(* ---------------- program constants ---------------- *)
DebounceMs == 500
GuardResetMs == 100
ExpiryWindowDays == 3

Types == {"foods", "recipes"}
Other(type) == IF type = "foods" THEN "recipes" ELSE "foods"
Vals == 1..MaxVal

(* A record of either collection.  val stands for the fields the forms     *)
(* edit (name, category, quantity, ...), date for dateAdded/dateCreated,   *)
(* keys for the order in which the object's properties were assigned,      *)
(* which JSON.stringify reproduces.                                        *)
Rec(i, v, d, k) == [id |-> i, val |-> v, date |-> d, keys |-> k]

(* ---------------- createDataHash ---------------- *)
RECURSIVE InsertById(_, _)
InsertById(r, s) ==
  IF s = <<>> THEN <<r>>
  ELSE IF r.id < Head(s).id THEN <<r>> \o s
  ELSE <<Head(s)>> \o InsertById(r, Tail(s))

RECURSIVE SortById(_)
SortById(s) ==
  IF s = <<>> THEN <<>>
  ELSE InsertById(s[Len(s)], SortById(SubSeq(s, 1, Len(s) - 1)))

(* The hash is a string; '' (the initial useState value) is a string that  *)
(* no JSON.stringify of an array produces.                                 *)
EmptyString == [k |-> "", s |-> <<>>]
createDataHash(data) == [k |-> "json", s |-> SortById(data)]

(* ---------------- storage contents ---------------- *)
Absent == [k |-> "absent", s |-> <<>>]
Malformed == [k |-> "malformed", s |-> <<>>]
Json(data) == [k |-> "json", s |-> data]

InitGateway == [type \in Types |->
  IF type = "foods" THEN Json(<<Rec(0, 1, 0, "idFirst")>>) ELSE Json(<<>>)]

VARIABLES
  foods, recipes, isLoaded, lastFoodsSave, lastRecipesSave,
  editingFood, editingRecipe,
  foodsFromServerRef, recipesFromServerRef, saveTimeoutRef,
  guardTimer, loadState, inFlight, gateway, localStorage, clock,
  ops, opsLimit, issuedIds, quiet, burstCalls, run, failed,
  session, lastWrite, reports, shown

reactState == <<foods, recipes, isLoaded, lastFoodsSave, lastRecipesSave,
                editingFood, editingRecipe>>
refs == <<foodsFromServerRef, recipesFromServerRef, saveTimeoutRef>>
env == <<guardTimer, loadState, inFlight, gateway, localStorage, clock>>
ghost == <<ops, opsLimit, issuedIds, quiet, burstCalls, run, failed,
           session, lastWrite>>
(* What the user is shown: the number of refusals reported (alert or the  *)
(* browser's validation message) and the derived views of the last render. *)
ui == <<reports, shown>>
vars == <<reactState, refs, env, ghost, ui>>

Data(type) == IF type = "foods" THEN foods ELSE recipes
LastSave(type) == IF type = "foods" THEN lastFoodsSave ELSE lastRecipesSave
FromServer(type) ==
  IF type = "foods" THEN foodsFromServerRef ELSE recipesFromServerRef

(* ---------------- timers ---------------- *)
NoTimer == [on |-> FALSE, data |-> <<>>, hash |-> EmptyString,
            seen |-> EmptyString, left |-> 0]
NoGuard == -1

(* Before the first render of the views. *)
NotRendered == [n |-> 0, now |-> 0, tz |-> 0, expiring |-> <<>>,
                expired |-> <<>>, available |-> <<>>]

(* debouncedSave with an empty dependency list: the callback keeps the     *)
(* lastFoodsSave/lastRecipesSave of the first render.                      *)
debouncedSave_StaleClosure(data, hash, seen) ==
  [on |-> TRUE, data |-> data, hash |-> hash, seen |-> EmptyString,
   left |-> DebounceMs]

(* debouncedSave(type, data, hash): clears the pending timeout of the type *)
(* and sets a new one.  The callback closes over data, hash and the        *)
(* lastFoodsSave/lastRecipesSave of the render that made debouncedSave     *)
(* (seen).                                                                 *)
debouncedSave(data, hash, seen) ==
  [on |-> TRUE, data |-> data, hash |-> hash, seen |-> seen,
   left |-> DebounceMs]

(* The save effect of one collection, run after a render in which one of   *)
(* its dependencies changed: the new value of saveTimeoutRef.current[type].*)
SaveEffect(timer, data, last, loaded, fromServer) ==
  IF loaded /\ ~fromServer /\ Len(data) >= 0
  THEN debouncedSave(data, createDataHash(data), last)
  ELSE timer

Due(timer) == timer.on /\ timer.left = 0
Sub(n) == IF n > TickStep THEN n - TickStep ELSE 0

Start ==
  /\ foods = <<>>
  /\ recipes = <<>>
  /\ isLoaded = FALSE
  /\ lastFoodsSave = EmptyString
  /\ lastRecipesSave = EmptyString
  /\ editingFood = <<>>
  /\ editingRecipe = <<>>
  /\ foodsFromServerRef = FALSE
  /\ recipesFromServerRef = FALSE
  /\ saveTimeoutRef = [type \in Types |-> NoTimer]
  /\ guardTimer = NoGuard
  /\ loadState = "loading"
  /\ inFlight = [type \in Types |-> <<>>]
  /\ \E c \in {Absent, Malformed} : localStorage = [type \in Types |-> c]
  /\ clock = 1
  /\ ops = [type \in Types |-> 0]
  /\ issuedIds = [type \in Types |-> {}]
  /\ quiet = [type \in Types |-> -1]
  /\ burstCalls = [type \in Types |-> <<>>]
  /\ run = [type \in Types |-> [hash |-> EmptyString, saves |-> 0]]
  /\ failed = [type \in Types |-> EmptyString]
  /\ session = 1
  /\ lastWrite = [type \in Types |-> Absent]
  /\ reports = 0
  /\ shown = NotRendered

Init == Start /\ gateway = InitGateway /\ opsLimit = MaxOps
InitIds == Start /\ gateway = InitGateway /\ opsLimit = MaxOpsIds


(* ---------------- bookkeeping of the history (not program state) -------- *)
TotalOps == ops["foods"] + ops["recipes"]
CanMutate == TotalOps < opsLimit /\ editingFood = <<>> /\ editingRecipe = <<>>

(* run[type]: the fingerprint of the latest debouncedSave invocation of    *)
(* the type and the number of save calls issued since the first of the     *)
(* consecutive invocations with that fingerprint.                          *)
NoteInvoke(r, h) == IF r.hash = h THEN r ELSE [hash |-> h, saves |-> 0]
Cap2(n) == IF n < 2 THEN n + 1 ELSE 2

(* The re-render after a change of one collection: its save effect runs    *)
(* (dependency foods / recipes changed), the other collection's does not.  *)
AfterMutation(type, newData) ==
  /\ saveTimeoutRef' = [saveTimeoutRef EXCEPT ![type] =
        SaveEffect(@, newData, LastSave(type), isLoaded, FromServer(type))]
  /\ run' = [run EXCEPT ![type] =
        IF isLoaded /\ ~FromServer(type)
        THEN NoteInvoke(@, createDataHash(newData)) ELSE @]
  /\ ops' = [ops EXCEPT ![type] = @ + 1]
  /\ UNCHANGED <<opsLimit, session, lastWrite, reports, shown>>
  /\ quiet' = [quiet EXCEPT ![type] =
        IF loadState = "loading" THEN @ ELSE DebounceMs]
  /\ burstCalls' = [burstCalls EXCEPT ![type] =
        IF loadState = "loading" \/ quiet[type] > 0 THEN @ ELSE <<>>]
  /\ failed' = [failed EXCEPT ![type] = EmptyString]

(* ---------------- Record Lifecycle: foods ---------------- *)
(* Date.now() + Math.random(): t is the millisecond read, r the random     *)
(* fraction in units of 1/RandomLevels; r = RandomLevels is a fraction so  *)
(* close to 1 that the floating-point sum rounds up to t + 1.              *)
FoodId(t, r) == t * RandomLevels + r

(* addFood putting the new record first: [newFood, ...currentFoods].       *)
addFood_Prepend(v, t, r, d) ==
  /\ CanMutate
  /\ LET newFood == Rec(FoodId(t, r), v, d, "idFirst")
         updated == <<newFood>> \o foods
     IN /\ foods' = updated
        /\ issuedIds' = [issuedIds EXCEPT !["foods"] = @ \cup {newFood.id}]
        /\ AfterMutation("foods", updated)
  /\ clock' = d
  /\ UNCHANGED <<recipes, isLoaded, lastFoodsSave, lastRecipesSave,
                 editingFood, editingRecipe, foodsFromServerRef,
                 recipesFromServerRef, guardTimer, loadState, inFlight,
                 gateway, localStorage>>

addFood(v, t, r, d) ==
  /\ CanMutate
  /\ LET newFood == Rec(FoodId(t, r), v, d, "idFirst")
         updated == Append(foods, newFood)
     IN /\ foods' = updated
        /\ issuedIds' = [issuedIds EXCEPT !["foods"] = @ \cup {newFood.id}]
        /\ AfterMutation("foods", updated)
  /\ clock' = d
  /\ UNCHANGED <<recipes, isLoaded, lastFoodsSave, lastRecipesSave,
                 editingFood, editingRecipe, foodsFromServerRef,
                 recipesFromServerRef, guardTimer, loadState, inFlight,
                 gateway, localStorage>>

MapReplace(s, u) == [i \in 1..Len(s) |-> IF s[i].id = u.id THEN u ELSE s[i]]

updateFood(v) ==
  /\ TotalOps < opsLimit
  /\ editingFood # <<>>
  /\ LET updatedFood == Rec(editingFood[1].id, v, editingFood[1].date, "idLast")
         updated == MapReplace(foods, updatedFood)
     IN /\ foods' = updated
        /\ AfterMutation("foods", updated)
  /\ editingFood' = <<>>
  /\ UNCHANGED <<recipes, isLoaded, lastFoodsSave, lastRecipesSave,
                 editingRecipe, foodsFromServerRef, recipesFromServerRef,
                 guardTimer, loadState, inFlight, gateway, localStorage,
                 clock, issuedIds>>

FilterOut(s, id) == SelectSeq(s, LAMBDA x : x.id # id)

deleteFood(id) ==
  /\ CanMutate
  /\ \E i \in 1..Len(foods) : foods[i].id = id
  /\ foods' = FilterOut(foods, id)
  /\ AfterMutation("foods", FilterOut(foods, id))
  /\ UNCHANGED <<recipes, isLoaded, lastFoodsSave, lastRecipesSave,
                 editingFood, editingRecipe, foodsFromServerRef,
                 recipesFromServerRef, guardTimer, loadState, inFlight,
                 gateway, localStorage, clock, issuedIds>>

(* ---------------- Record Lifecycle: recipes ---------------- *)
addRecipe(v, t, d) ==
  /\ CanMutate
  /\ LET newRecipe == Rec(t, v, d, "idLast")
         updated == Append(recipes, newRecipe)
     IN /\ recipes' = updated
        /\ issuedIds' = [issuedIds EXCEPT !["recipes"] = @ \cup {newRecipe.id}]
        /\ AfterMutation("recipes", updated)
  /\ clock' = d
  /\ UNCHANGED <<foods, isLoaded, lastFoodsSave, lastRecipesSave,
                 editingFood, editingRecipe, foodsFromServerRef,
                 recipesFromServerRef, guardTimer, loadState, inFlight,
                 gateway, localStorage>>

updateRecipe(v) ==
  /\ TotalOps < opsLimit
  /\ editingRecipe # <<>>
  /\ LET updatedRecipe ==
           Rec(editingRecipe[1].id, v, editingRecipe[1].date, "idLast")
         updated == MapReplace(recipes, updatedRecipe)
     IN /\ recipes' = updated
        /\ AfterMutation("recipes", updated)
  /\ editingRecipe' = <<>>
  /\ UNCHANGED <<foods, isLoaded, lastFoodsSave, lastRecipesSave,
                 editingFood, foodsFromServerRef, recipesFromServerRef,
                 guardTimer, loadState, inFlight, gateway, localStorage,
                 clock, issuedIds>>

deleteRecipe(id) ==
  /\ CanMutate
  /\ \E i \in 1..Len(recipes) : recipes[i].id = id
  /\ recipes' = FilterOut(recipes, id)
  /\ AfterMutation("recipes", FilterOut(recipes, id))
  /\ UNCHANGED <<foods, isLoaded, lastFoodsSave, lastRecipesSave,
                 editingFood, editingRecipe, foodsFromServerRef,
                 recipesFromServerRef, guardTimer, loadState, inFlight,
                 gateway, localStorage, clock, issuedIds>>

(* ---------------- edit modals ---------------- *)
(* setEditingFood(food) / setEditingRecipe(recipe) of the list buttons and *)
(* the onCancel of the edit forms.  The modal covers the page, so one is   *)
(* open at a time and the list buttons are not reachable under it.         *)
setEditingFood(i) ==
  /\ editingFood = <<>> /\ editingRecipe = <<>>
  /\ TotalOps < opsLimit
  /\ editingFood' = <<foods[i]>>
  /\ UNCHANGED <<foods, recipes, isLoaded, lastFoodsSave, lastRecipesSave,
                 editingRecipe, refs, env, ghost, ui>>

setEditingRecipe(i) ==
  /\ editingFood = <<>> /\ editingRecipe = <<>>
  /\ TotalOps < opsLimit
  /\ editingRecipe' = <<recipes[i]>>
  /\ UNCHANGED <<foods, recipes, isLoaded, lastFoodsSave, lastRecipesSave,
                 editingFood, refs, env, ghost, ui>>

onCancel ==
  /\ editingFood # <<>> \/ editingRecipe # <<>>
  /\ editingFood' = <<>>
  /\ editingRecipe' = <<>>
  /\ UNCHANGED <<foods, recipes, isLoaded, lastFoodsSave, lastRecipesSave,
                 refs, env, ghost, ui>>


(* ---------------- storage API ---------------- *)
(* foodsAPI.getAll / recipesAPI.getAll: the gateway's array when the fetch *)
(* succeeds (up), else the parsed local slot ([] when absent); JSON.parse  *)
(* of a malformed slot throws out of getAll.                               *)
getAll(type, up) ==
  IF up THEN [threw |-> FALSE, data |-> gateway[type].s]
  ELSE IF localStorage[type].k = "malformed"
       THEN [threw |-> TRUE, data |-> <<>>]
       ELSE [threw |-> FALSE, data |-> localStorage[type].s]

(* ---------------- load ---------------- *)
(* try branch of loadData, both getAll calls having returned.  The save    *)
(* effects run in the re-render but both flags are set: no timer is armed. *)
loadDataTry(loadedFoods, loadedRecipes) ==
  /\ foodsFromServerRef' = TRUE
  /\ recipesFromServerRef' = TRUE
  /\ foods' = loadedFoods
  /\ recipes' = loadedRecipes
  /\ lastFoodsSave' = createDataHash(loadedFoods)
  /\ lastRecipesSave' = createDataHash(loadedRecipes)
  /\ isLoaded' = TRUE
  /\ guardTimer' = GuardResetMs
  /\ loadState' = "loaded"
  /\ saveTimeoutRef' = [type \in Types |->
        SaveEffect(saveTimeoutRef[type],
                   IF type = "foods" THEN loadedFoods ELSE loadedRecipes,
                   IF type = "foods" THEN createDataHash(loadedFoods)
                                     ELSE createDataHash(loadedRecipes),
                   TRUE, TRUE)]
  /\ UNCHANGED <<editingFood, editingRecipe, inFlight, gateway, localStorage,
                 clock, ghost, ui>>

(* A catch branch that logs the error and leaves isLoaded false.           *)
loadDataCatch_NotLoaded ==
  /\ loadState' = "failed"
  /\ UNCHANGED <<reactState, refs, guardTimer, inFlight, gateway,
                 localStorage, clock, ghost, ui>>

(* catch branch of loadData: only isLoaded changes; the re-render runs     *)
(* both save effects (dependency isLoaded) with the flags still false.     *)
loadDataCatch ==
  /\ isLoaded' = TRUE
  /\ loadState' = "failed"
  /\ saveTimeoutRef' = [type \in Types |->
        SaveEffect(saveTimeoutRef[type], Data(type), LastSave(type),
                   TRUE, FromServer(type))]
  /\ run' = [type \in Types |->
        IF ~FromServer(type)
        THEN NoteInvoke(run[type], createDataHash(Data(type)))
        ELSE run[type]]
  /\ UNCHANGED <<foods, recipes, lastFoodsSave, lastRecipesSave, editingFood,
                 editingRecipe, foodsFromServerRef, recipesFromServerRef,
                 guardTimer, inFlight, gateway, localStorage, clock,
                 ops, opsLimit, issuedIds, quiet, burstCalls, failed,
                 session, lastWrite, ui>>

loadData(upFoods, upRecipes) ==
  /\ loadState = "loading"
  /\ LET f == getAll("foods", upFoods)
         r == getAll("recipes", upRecipes)
     IN IF ~f.threw /\ ~r.threw
        THEN loadDataTry(f.data, r.data)
        ELSE loadDataCatch

(* The setTimeout(..., 100) callback of loadData. *)
resetServerFlags ==
  /\ guardTimer = 0
  /\ foodsFromServerRef' = FALSE
  /\ recipesFromServerRef' = FALSE
  /\ guardTimer' = NoGuard
  /\ UNCHANGED <<reactState, saveTimeoutRef, loadState, inFlight, gateway,
                 localStorage, clock, ghost, ui>>

(* ---------------- write-back ---------------- *)
(* The debounce callback up to its await: compares the hash it was given   *)
(* with the last-saved hash of its closure and calls the API's save.       *)
saveTimeout(type) ==
  /\ Due(saveTimeoutRef[type])
  /\ LET tm == saveTimeoutRef[type]
         currentHash == tm.seen
     IN IF tm.hash # currentHash
        THEN /\ Len(inFlight["foods"]) + Len(inFlight["recipes"]) < MaxInFlight
             /\ inFlight' = [inFlight EXCEPT ![type] =
                   Append(@, [data |-> tm.data, hash |-> tm.hash])]
             /\ burstCalls' = [burstCalls EXCEPT ![type] =
                   IF Len(@) < 2 THEN Append(@, tm.data) ELSE @]
             /\ run' = [run EXCEPT ![type].saves = Cap2(@)]
        ELSE UNCHANGED <<inFlight, burstCalls, run>>
  /\ saveTimeoutRef' = [saveTimeoutRef EXCEPT ![type] = NoTimer]
  /\ UNCHANGED <<reactState, foodsFromServerRef, recipesFromServerRef,
                 guardTimer, loadState, gateway, localStorage, clock,
                 ops, opsLimit, issuedIds, quiet, failed, session,
                 lastWrite, ui>>

RemoveAt(s, i) == SubSeq(s, 1, i - 1) \o SubSeq(s, i + 1, Len(s))

(* foodsAPI.save / recipesAPI.save from the response on, and the rest of   *)
(* the debounce callback: ok is the gateway accepting the POST, otherwise  *)
(* the payload goes to the local slot; either way save returns and the     *)
(* last-saved hash is set.  A changed hash gives a new debouncedSave, a    *)
(* dependency of BOTH save effects.                                        *)
saveDone(type, i, ok) ==
  /\ i \in 1..Len(inFlight[type])
  /\ LET p == inFlight[type][i]
         changed == p.hash # LastSave(type)
         last(t) == IF t = type THEN p.hash ELSE LastSave(t)
     IN /\ gateway' = IF ok THEN [gateway EXCEPT ![type] = Json(p.data)]
                      ELSE gateway
        /\ localStorage' = IF ok THEN localStorage
                           ELSE [localStorage EXCEPT ![type] = Json(p.data)]
        /\ lastFoodsSave' = last("foods")
        /\ lastRecipesSave' = last("recipes")
        /\ saveTimeoutRef' = [t \in Types |->
              IF changed
              THEN SaveEffect(saveTimeoutRef[t], Data(t), last(t), isLoaded,
                              FromServer(t))
              ELSE saveTimeoutRef[t]]
        /\ run' = [t \in Types |->
              IF changed /\ isLoaded /\ ~FromServer(t)
              THEN NoteInvoke(run[t], createDataHash(Data(t)))
              ELSE run[t]]
        /\ failed' = IF ok THEN failed ELSE [failed EXCEPT ![type] = p.hash]
        /\ lastWrite' = [lastWrite EXCEPT ![type] = Json(p.data)]
  /\ inFlight' = [inFlight EXCEPT ![type] = RemoveAt(@, i)]
  /\ UNCHANGED <<foods, recipes, isLoaded, editingFood, editingRecipe,
                 foodsFromServerRef, recipesFromServerRef, guardTimer,
                 loadState, clock, ops, opsLimit, issuedIds, quiet, burstCalls,
                 session, ui>>

(* ---------------- passage of time ---------------- *)
(* TickStep milliseconds pass; a timer that is due runs before more time   *)
(* passes.                                                                 *)
Tick ==
  /\ guardTimer # 0
  /\ \A type \in Types : ~Due(saveTimeoutRef[type])
  /\ \/ guardTimer > 0
     \/ \E type \in Types : saveTimeoutRef[type].on \/ quiet[type] > 0
  /\ guardTimer' = IF guardTimer > 0 THEN Sub(guardTimer) ELSE guardTimer
  /\ saveTimeoutRef' = [type \in Types |->
        IF saveTimeoutRef[type].on
        THEN [saveTimeoutRef[type] EXCEPT !.left = Sub(@)]
        ELSE saveTimeoutRef[type]]
  /\ quiet' = [type \in Types |->
        IF quiet[type] > 0 THEN Sub(quiet[type]) ELSE quiet[type]]
  /\ UNCHANGED <<reactState, foodsFromServerRef, recipesFromServerRef,
                 loadState, inFlight, gateway, localStorage, clock,
                 ops, opsLimit, issuedIds, burstCalls, run, failed,
                 session, lastWrite, ui>>

(* Session in which every create happens in a millisecond of its own.     *)
Next ==
  \/ \E v \in Vals : addFood(v, clock + 1, 0, clock + 1)
  \/ \E v \in Vals : updateFood(v)
  \/ \E i \in 1..Len(foods) : deleteFood(foods[i].id)
  \/ \E v \in Vals : addRecipe(v, clock + 1, clock + 1)
  \/ \E v \in Vals : updateRecipe(v)
  \/ \E i \in 1..Len(recipes) : deleteRecipe(recipes[i].id)
  \/ \E i \in 1..Len(foods) : setEditingFood(i)
  \/ \E i \in 1..Len(recipes) : setEditingRecipe(i)
  \/ onCancel
  \/ \E upFoods \in BOOLEAN, upRecipes \in BOOLEAN : loadData(upFoods, upRecipes)
  \/ resetServerFlags
  \/ \E type \in Types : saveTimeout(type)
  \/ \E type \in Types, i \in 1..MaxInFlight, ok \in BOOLEAN : saveDone(type, i, ok)
  \/ Tick

Spec == Init /\ [][Next]_vars

(* Session in which creates may share a millisecond: Date.now() returns    *)
(* the millisecond of the previous read or a later one.  No time passes    *)
(* for the timers.                                                         *)
NextIds ==
  \/ \E v \in Vals, t \in clock..(clock + 1), r \in 0..RandomLevels :
       \E d \in t..(t + 1) : addFood(v, t, r, d)
  \/ \E v \in Vals : updateFood(v)
  \/ \E i \in 1..Len(foods) : deleteFood(foods[i].id)
  \/ \E v \in Vals, t \in clock..(clock + 1) :
       \E d \in t..(t + 1) : addRecipe(v, t, d)
  \/ \E v \in Vals : updateRecipe(v)
  \/ \E i \in 1..Len(recipes) : deleteRecipe(recipes[i].id)
  \/ \E i \in 1..Len(foods) : setEditingFood(i)
  \/ \E i \in 1..Len(recipes) : setEditingRecipe(i)
  \/ onCancel
  \/ \E upFoods \in BOOLEAN, upRecipes \in BOOLEAN : loadData(upFoods, upRecipes)

SpecIds == InitIds /\ [][NextIds]_vars

(* ---------------- a new session ---------------- *)
(* The page is closed with no save awaiting its response and opened        *)
(* again: the component is mounted anew (pending timers are gone with the  *)
(* page), the gateway's files and the browser's localStorage stay.         *)
restart ==
  /\ session < MaxSessions
  /\ loadState # "loading"
  /\ \A type \in Types : inFlight[type] = <<>>
  /\ foods' = <<>>
  /\ recipes' = <<>>
  /\ isLoaded' = FALSE
  /\ lastFoodsSave' = EmptyString
  /\ lastRecipesSave' = EmptyString
  /\ editingFood' = <<>>
  /\ editingRecipe' = <<>>
  /\ foodsFromServerRef' = FALSE
  /\ recipesFromServerRef' = FALSE
  /\ saveTimeoutRef' = [type \in Types |-> NoTimer]
  /\ guardTimer' = NoGuard
  /\ loadState' = "loading"
  /\ quiet' = [type \in Types |-> -1]
  /\ burstCalls' = [type \in Types |-> <<>>]
  /\ run' = [type \in Types |-> [hash |-> EmptyString, saves |-> 0]]
  /\ failed' = [type \in Types |-> EmptyString]
  /\ session' = session + 1
  /\ UNCHANGED <<inFlight, gateway, localStorage, clock, ops, opsLimit,
                 issuedIds, lastWrite, ui>>

(* The gateway's files as earlier sessions left them: one food, one recipe. *)
RestartGateway == [type \in Types |->
  Json(<<Rec(0, 1, 0, IF type = "foods" THEN "idFirst" ELSE "idLast")>>)]

InitRestart == Start /\ gateway = RestartGateway /\ opsLimit = MaxOpsRestart

(* Sessions one after the other on the same gateway and browser. *)
NextRestart ==
  \/ Next
  \/ restart

SpecRestart == InitRestart /\ [][NextRestart]_vars

(* ======================= forms and derived views ======================= *)
(* JavaScript numbers as the forms produce them: NaN (parseFloat/parseInt  *)
(* of an empty field) or a number.                                         *)
NaN == [nan |-> TRUE, n |-> 0]
Num(n) == [nan |-> FALSE, n |-> n]
Truthy(x) == ~x.nan /\ x.n # 0
Geq(a, b) == ~a.nan /\ ~b.nan /\ a.n >= b.n
Lt(a, b) == ~a.nan /\ ~b.nan /\ a.n < b.n
(* Number(formData.quantity) || 1 *)
NumberOr1(q) == IF Truthy(q) THEN q ELSE Num(1)

(* Strings are sequences of characters. *)
RECURSIVE trimStart(_)
trimStart(s) == IF s # <<>> /\ Head(s) = " " THEN trimStart(Tail(s)) ELSE s
RECURSIVE trimEnd(_)
trimEnd(s) ==
  IF s # <<>> /\ s[Len(s)] = " " THEN trimEnd(SubSeq(s, 1, Len(s) - 1)) ELSE s
trim(s) == trimEnd(trimStart(s))
LowerOf(c) == IF c = "M" THEN "m" ELSE IF c = "W" THEN "w" ELSE c
toLowerCase(s) == [i \in 1..Len(s) |-> LowerOf(s[i])]
includes(s, sub) ==
  \E i \in 0..(Len(s) - Len(sub)) : SubSeq(s, i + 1, i + Len(sub)) = sub

(* The value of the date input: '' or a calendar day (YYYY-MM-DD).         *)
NoDate == [k |-> "empty", day |-> 0]
DateStr(d) == [k |-> "date", day |-> d]

(* What the user can have typed into the forms. *)
FoodNames == {<<>>, <<" ">>, <<"W", "M">>}
Quantities == {NaN} \cup {Num(n) : n \in -1..MaxQuantity}
Expiries == {NoDate, DateStr(Today - 1), DateStr(Today + 2)}
FoodFormData == [name : FoodNames, quantity : Quantities, expiryDate : Expiries]

IngredientInputs ==
  [name : {<<>>, <<"m">>}, quantity : {Num(0), Num(MaxQuantity)}]
IngredientLists ==
  {<<a>> : a \in IngredientInputs}
    \cup {<<a, [name |-> <<"w">>, quantity |-> Num(MaxQuantity)]>> :
            a \in {x \in IngredientInputs : x.name # <<>>}}
RecipeFormData ==
  [name : {<<>>, <<"R">>}, instructions : {<<>>, <<"x">>},
   servings : {NaN, Num(0), Num(1)}, ingredients : IngredientLists]

FormsGateway == [type \in Types |->
  IF type = "foods"
  THEN Json(<<Rec(0, [name |-> <<"M">>, quantity |-> Num(1),
                      expiryDate |-> DateStr(Today + 2)], 0, "idFirst")>>)
  ELSE Json(<<>>)]

InitForms == Start /\ gateway = FormsGateway /\ opsLimit = MaxOpsForms

(* alert(...) of the food form, or the browser's message on a form whose   *)
(* constraint validation fails: nothing else happens.                      *)
Refuse ==
  /\ reports < MaxReports
  /\ reports' = reports + 1
  /\ UNCHANGED <<reactState, refs, env, ghost, shown>>

(* handleAddClick without the name check. *)
FoodForm_handleAddClick_NoNameCheck(formData, t, r, d) ==
  IF formData.expiryDate = NoDate
  THEN Refuse
  ELSE LET processedData ==
             [formData EXCEPT !.quantity = NumberOr1(@), !.name = trim(@)]
       IN IF editingFood # <<>> THEN updateFood(processedData)
          ELSE addFood(processedData, t, r, d)

(* FoodForm.handleAddClick (handleSubmit has the same body): the form is   *)
(* the add modal (onSubmit = addFood) or, with editingFood set, the edit   *)
(* modal (onSubmit = updateFood).  The button is type="button": the        *)
(* browser validates nothing.                                              *)
FoodForm_handleAddClick(formData, t, r, d) ==
  IF trim(formData.name) = <<>> \/ formData.expiryDate = NoDate
  THEN Refuse
  ELSE LET processedData ==
             [formData EXCEPT !.quantity = NumberOr1(@), !.name = trim(@)]
       IN IF editingFood # <<>> THEN updateFood(processedData)
          ELSE addFood(processedData, t, r, d)

(* Constraint validation of the recipe form on its submit button: required *)
(* name, instructions, ingredient name and quantity; min on servings and   *)
(* on the ingredient quantity.  An empty number field (NaN) is shown as    *)
(* empty: missing where required, valid where not.                         *)
RecipeFormValid(formData) ==
  /\ formData.name # <<>>
  /\ formData.instructions # <<>>
  /\ formData.servings.nan \/ formData.servings.n >= 1
  /\ \A i \in 1..Len(formData.ingredients) :
       /\ formData.ingredients[i].name # <<>>
       /\ ~formData.ingredients[i].quantity.nan
       /\ formData.ingredients[i].quantity.n >= 1

(* Submit of the recipe form: RecipeForm.handleSubmit passes formData on   *)
(* as it is.                                                               *)
RecipeForm_handleSubmit(formData, t, d) ==
  IF ~RecipeFormValid(formData)
  THEN Refuse
  ELSE IF editingRecipe # <<>> THEN updateRecipe(formData)
       ELSE addRecipe(formData, t, d)

(* ---------------- derived views ---------------- *)
(* Time is counted in parts of a day; the instant n stands for every       *)
(* instant of the part that starts at n.  new Date('YYYY-MM-DD') is        *)
(* midnight UTC of that day.                                               *)
CeilDiv(a, b) == -((-a) \div b)
getDaysUntilExpiry(expiryDate, today) ==
  IF expiryDate.k = "empty" THEN NaN
  ELSE Num(CeilDiv(expiryDate.day * PartsPerDay - today, PartsPerDay))

getExpiringFoods(days, today) ==
  SelectSeq(foods, LAMBDA food :
    LET daysUntilExpiry == getDaysUntilExpiry(food.val.expiryDate, today)
    IN Geq(Num(days), daysUntilExpiry) /\ Geq(daysUntilExpiry, Num(0)))

getExpiredFoods(today) ==
  SelectSeq(foods, LAMBDA food :
    Lt(getDaysUntilExpiry(food.val.expiryDate, today), Num(0)))

(* getAvailableRecipes comparing the names as they are. *)
getAvailableRecipes_CaseSensitive ==
  SelectSeq(recipes, LAMBDA recipe :
    \A k \in 1..Len(recipe.val.ingredients) :
      LET ingredient == recipe.val.ingredients[k]
      IN \E j \in 1..Len(foods) :
           /\ includes(foods[j].val.name, ingredient.name)
           /\ Geq(foods[j].val.quantity, ingredient.quantity))

getAvailableRecipes ==
  SelectSeq(recipes, LAMBDA recipe :
    \A k \in 1..Len(recipe.val.ingredients) :
      LET ingredient == recipe.val.ingredients[k]
      IN \E j \in 1..Len(foods) :
           /\ includes(toLowerCase(foods[j].val.name),
                       toLowerCase(ingredient.name))
           /\ Geq(foods[j].val.quantity, ingredient.quantity))

(* A render of the dashboard (any state change, e.g. setActiveTab): the    *)
(* three views are computed one after the other, each reading the clock;   *)
(* tz is the browser's offset from UTC.                                    *)
render(now, later, tz) ==
  /\ shown.n < MaxRenders
  /\ shown' = [n |-> shown.n + 1, now |-> now, tz |-> tz,
               expiring |-> getExpiringFoods(ExpiryWindowDays, now),
               expired |-> getExpiredFoods(later),
               available |-> getAvailableRecipes]
  /\ UNCHANGED <<reactState, refs, env, ghost, reports>>

Nows == (Today * PartsPerDay - 1)..((Today + 1) * PartsPerDay)
Offsets == -(PartsPerDay \div 2)..(PartsPerDay \div 2)

(* Session of the forms and the views: every create in a millisecond of    *)
(* its own, no time passes for the timers.                                 *)
NextForms ==
  \/ \E formData \in FoodFormData :
       FoodForm_handleAddClick(formData, clock + 1, 0, clock + 1)
  \/ \E formData \in RecipeFormData :
       RecipeForm_handleSubmit(formData, clock + 1, clock + 1)
  \/ \E i \in 1..Len(foods) : deleteFood(foods[i].id)
  \/ \E i \in 1..Len(recipes) : deleteRecipe(recipes[i].id)
  \/ \E i \in 1..Len(foods) : setEditingFood(i)
  \/ \E i \in 1..Len(recipes) : setEditingRecipe(i)
  \/ onCancel
  \/ \E upFoods \in BOOLEAN, upRecipes \in BOOLEAN : loadData(upFoods, upRecipes)
  \/ \E now \in Nows, tz \in Offsets :
       \E later \in now..(now + 1) : render(now, later, tz)

SpecForms == InitForms /\ [][NextForms]_vars

TypeOK ==
  /\ isLoaded \in BOOLEAN
  /\ loadState \in {"loading", "loaded", "failed"}
  /\ Len(inFlight["foods"]) + Len(inFlight["recipes"]) <= MaxInFlight


(* ======================= claims ======================= *)
DataNext(type) == IF type = "foods" THEN foods' ELSE recipes'
LastSaveNext(type) ==
  IF type = "foods" THEN lastFoodsSave' ELSE lastRecipesSave'
(* A step in which foodsAPI.save / recipesAPI.save is called. *)
SaveIssued(type) == Len(inFlight'[type]) > Len(inFlight[type])
(* A step that is a create, update or delete of the collection. *)
Mutated(type) == ops'[type] > ops[type]

(* C1: after load, whatever its outcome, no save call is issued for either *)
(* collection before the user has performed a create, update or delete.    *)
C1_LoadNeverWritesBack ==
  [][(\E type \in Types : SaveIssued(type)) => TotalOps > 0]_vars

(* C2: once the quiescence window after the last mutation of a burst has   *)
(* elapsed and nothing is pending for the collection, exactly one save     *)
(* call has been issued for the burst and its payload is the collection    *)
(* as the last mutation left it (a burst that ends in the persisted state  *)
(* needs no call, section 4.1).  Stated for sessions whose load succeeded. *)
C2_BurstGivesOneSave ==
  \A type \in Types :
    (/\ loadState = "loaded"
     /\ quiet[type] = 0
     /\ ~saveTimeoutRef[type].on
     /\ createDataHash(Data(type)) # LastSave(type))
    => burstCalls[type] = <<Data(type)>>

(* C3: consecutive onMutation invocations with equal fingerprints lead to  *)
(* at most one save call, and no save call is issued for a fingerprint     *)
(* equal to the last-persisted one.  Stated for sessions whose load        *)
(* succeeded.                                                              *)
C3_UnchangedDataSavedOnce ==
  [][\A type \in Types :
       (loadState = "loaded" /\ SaveIssued(type)) =>
         /\ run[type].saves = 0
         /\ saveTimeoutRef[type].hash # LastSave(type)]_vars

(* C4: every create, update or delete, at any moment of the session, runs  *)
(* debouncedSave for its collection with the resulting state.  Stated for  *)
(* the mutations that come after a successful load.                        *)
C4_MutationRunsDebouncedSave ==
  [][\A type \in Types :
       (loadState = "loaded" /\ Mutated(type)) =>
         saveTimeoutRef'[type] =
           debouncedSave(DataNext(type), createDataHash(DataNext(type)),
                         LastSave(type))]_vars

(* C5: a mutation, timer firing, save call or save completion of one       *)
(* collection leaves the other collection's debounce timer, last-persisted *)
(* fingerprint and save calls unchanged.  Stated for sessions whose load   *)
(* succeeded.                                                              *)
StepOf(type) ==
  \/ Mutated(type)
  \/ saveTimeoutRef[type].on /\ ~saveTimeoutRef'[type].on
  \/ Len(inFlight'[type]) # Len(inFlight[type])
C5_CollectionsIndependent ==
  [][\A type \in Types :
       (loadState = "loaded" /\ StepOf(type) /\ ~StepOf(Other(type))) =>
         /\ saveTimeoutRef'[Other(type)] = saveTimeoutRef[Other(type)]
         /\ LastSaveNext(Other(type)) = LastSave(Other(type))
         /\ inFlight'[Other(type)] = inFlight[Other(type)]]_vars

(* C6: when a debounce timer fires, save is called only if the fingerprint *)
(* it carries differs from the collection's last-persisted fingerprint as  *)
(* it is at that moment.                                                   *)
C6_FireComparesCurrentFingerprint ==
  [][\A type \in Types :
       SaveIssued(type) => saveTimeoutRef[type].hash # LastSave(type)]_vars

(* C6 witness: a save has completed earlier for the collection and the     *)
(* timer of a later state has fired and called save.                       *)
C6_Witness ==
  \E type \in Types :
    /\ loadState = "loaded"
    /\ ops[type] = 2
    /\ gateway[type] # InitGateway[type] \/ localStorage[type].k = "json"
    /\ inFlight[type] # <<>>
    /\ inFlight[type][1].hash # LastSave(type)

(* C7: after a failed gateway replace the payload is in the local slot and *)
(* no further save call carries that payload before the collection's next  *)
(* mutation (no automatic retry).  Stated for sessions whose load          *)
(* succeeded.                                                              *)
C7_NoRetryAfterFailure ==
  [][\A type \in Types :
       (loadState = "loaded" /\ SaveIssued(type)) =>
         saveTimeoutRef[type].hash # failed[type]]_vars

(* C8 as stated: a failed load leaves both collections empty and sets      *)
(* isLoaded.                                                               *)
C8_FailedLoadEmpty ==
  [][(loadState = "loading" /\ loadState' = "failed") =>
       (foods' = <<>> /\ recipes' = <<>> /\ isLoaded')]_vars

(* C8 amended: after load, whatever its outcome, isLoaded is true; after a *)
(* failed load each collection holds only records the user created in this *)
(* session (none loaded), so it is empty if the user created none.         *)
C8_FailedLoadUsable ==
  /\ loadState # "loading" => isLoaded
  /\ loadState = "failed" =>
       \A type \in Types : \A i \in 1..Len(Data(type)) :
         Data(type)[i].id \in issuedIds[type]

(* C8 witness: load has failed with a record created during load present.  *)
C8_Witness ==
  /\ loadState = "failed"
  /\ isLoaded
  /\ foods # <<>>
  /\ recipes = <<>>

(* C9: no two records of a collection share an id, and a create never      *)
(* assigns an id assigned earlier in the collection, whatever the timing   *)
(* of the creates.  Stated for the recipes, whose id is Date.now() alone.  *)
NoDuplicateIds(s) ==
  \A i \in 1..Len(s) : \A j \in 1..Len(s) : i # j => s[i].id # s[j].id
C9_IdsUnique ==
  [][\A type \in {"recipes"} :
       (Mutated(type) /\ Len(DataNext(type)) = Len(Data(type)) + 1) =>
         /\ DataNext(type)[Len(DataNext(type))].id \notin issuedIds[type]
         /\ NoDuplicateIds(DataNext(type))]_vars

(* C10: an update leaves the id and the dateAdded/dateCreated of every     *)
(* record as they were at creation.  Stated for the recipes.               *)
Updated(type) ==
  /\ Mutated(type)
  /\ IF type = "foods" THEN editingFood # <<>> ELSE editingRecipe # <<>>
C10_UpdateKeepsIdAndDate ==
  [][\A type \in {"recipes"} :
       Updated(type) =>
         /\ Len(DataNext(type)) = Len(Data(type))
         /\ \A i \in 1..Len(Data(type)) :
              /\ DataNext(type)[i].id = Data(type)[i].id
              /\ DataNext(type)[i].date = Data(type)[i].date]_vars

(* C11: an update whose id is not in the collection is refused: the        *)
(* refusal is reported to the user and the collection is left unchanged.   *)
Editing(type) == IF type = "foods" THEN editingFood ELSE editingRecipe
Present(s, id) == \E i \in 1..Len(s) : s[i].id = id
C11_UpdateAbsentRefused ==
  [][\A type \in Types :
       (Updated(type) /\ ~Present(Data(type), Editing(type)[1].id)) =>
         /\ reports' > reports
         /\ DataNext(type) = Data(type)]_vars

(* C12: a delete of an id that is present shortens the collection by       *)
(* exactly one record; the filter applied for an id that is absent (an id  *)
(* issued earlier and deleted since) returns the collection unchanged.     *)
(* Stated for the recipes.                                                 *)
Deleted(type) == Mutated(type) /\ Len(DataNext(type)) < Len(Data(type))
C12_DeleteRemovesOne ==
  [][\A type \in {"recipes"} :
       /\ Deleted(type) => Len(DataNext(type)) = Len(Data(type)) - 1
       /\ \A id \in issuedIds[type] :
            ~Present(Data(type), id) => FilterOut(Data(type), id) = Data(type)]_vars

(* C13: the collection is kept in creation order: a create appends the new *)
(* record at the end, an update leaves every record at its index and       *)
(* changes only records of the edited id, a delete keeps the remaining     *)
(* records in their relative order; with every create in a millisecond of  *)
(* its own the ids, which grow with the creation time, are ascending.      *)
RECURSIVE IsSubsequence(_, _)
IsSubsequence(a, b) ==
  IF a = <<>> THEN TRUE
  ELSE IF b = <<>> THEN FALSE
  ELSE IF Head(a) = Head(b) THEN IsSubsequence(Tail(a), Tail(b))
  ELSE IsSubsequence(a, Tail(b))
IdsAscending(s) == \A i \in 1..Len(s) : \A j \in 1..Len(s) :
  i < j => s[i].id < s[j].id
Created(type) == Mutated(type) /\ Len(DataNext(type)) > Len(Data(type))
ValidFood(food) ==
  /\ food.val.name # <<>>
  /\ trim(food.val.name) = food.val.name
  /\ food.val.expiryDate # NoDate
ValidRecipe(recipe) ==
  /\ recipe.val.name # <<>>
  /\ recipe.val.instructions # <<>>
C14_InvalidCreateRefused ==
  [][/\ reports' > reports =>
          UNCHANGED <<foods, recipes, saveTimeoutRef, inFlight, lastFoodsSave,
                      lastRecipesSave, gateway, localStorage>>
     /\ Created("foods") => ValidFood(foods'[Len(foods')])
     /\ Created("recipes") => ValidRecipe(recipes'[Len(recipes')])]_vars

(* C14 witness: a submit has been refused, and a food and a recipe have    *)
(* been created.                                                           *)
C14_Witness ==
  /\ reports > 0
  /\ recipes # <<>>
  /\ \E i \in 1..Len(foods) : foods[i].id \in issuedIds["foods"]

(* C15: every food's quantity is greater than 0 and every recipe's         *)
(* servings is a positive integer.  Stated for sessions whose load         *)
(* succeeded.                                                              *)
C15_QuantitiesPositive ==
  loadState = "loaded" =>
    /\ \A i \in 1..Len(foods) : Geq(foods[i].val.quantity, Num(1))
    /\ \A i \in 1..Len(recipes) : Geq(recipes[i].val.servings, Num(1))

(* C16: the recipes shown as available are exactly the recipes, in their   *)
(* order, for which every ingredient has at least one food whose name      *)
(* contains the ingredient's name, case ignored, and whose quantity is at  *)
(* least the ingredient's; every ingredient is matched against the whole   *)
(* food list.                                                              *)
Rendered == shown'.n > shown.n
SameLetter(c, e) == c = e \/ {c, e} = {"M", "m"} \/ {c, e} = {"W", "w"}
ContainsIgnoringCase(s, sub) ==
  \E a \in 0..(Len(s) - Len(sub)) :
    \A k \in 1..Len(sub) : SameLetter(s[a + k], sub[k])
Feasible(recipe) ==
  \A k \in 1..Len(recipe.val.ingredients) :
    \E j \in 1..Len(foods) :
      /\ ContainsIgnoringCase(foods[j].val.name,
                              recipe.val.ingredients[k].name)
      /\ ~foods[j].val.quantity.nan
      /\ foods[j].val.quantity.n >= recipe.val.ingredients[k].quantity.n
C16_AvailableRecipesExact ==
  [][Rendered =>
       /\ IsSubsequence(shown'.available, recipes)
       /\ \A i \in 1..Len(recipes) :
            (\E j \in 1..Len(shown'.available) :
               shown'.available[j] = recipes[i]) <=> Feasible(recipes[i])]_vars

(* C16 witness: a recipe with two ingredients is shown as available while  *)
(* a single food has the quantity either ingredient needs.                 *)
C16_Witness ==
  /\ loadState = "loaded"
  /\ shown.n > 0
  /\ shown.available = recipes
  /\ Len(recipes) = 1
  /\ Len(recipes[1].val.ingredients) = 2
  /\ Cardinality({j \in 1..Len(foods) :
        Geq(foods[j].val.quantity, Num(MaxQuantity))}) = 1

(* C17: in a render, no food is both in the expiring-soon and in the       *)
(* expired view; a food whose expiry date is two days after the user's     *)
(* today is in the expiring-soon view only; a food whose expiry date is    *)
(* the user's yesterday has daysUntilExpiry = -1 and is in the expired     *)
(* view only.  The user's today is the calendar day of the render in the   *)
(* browser's time zone.  Stated for sessions whose load succeeded.         *)
LocalDate(now, tz) == (now + tz) \div PartsPerDay
InSeq(x, s) == \E j \in 1..Len(s) : s[j] = x
C17_ExpiryViews ==
  [][(loadState = "loaded" /\ Rendered) =>
       \A i \in 1..Len(foods) :
         LET expiryDate == foods[i].val.expiryDate
             today == LocalDate(shown'.now, shown'.tz)
         IN /\ ~(InSeq(foods[i], shown'.expiring)
                   /\ InSeq(foods[i], shown'.expired))
            /\ expiryDate.day = today + 2 =>
                 /\ InSeq(foods[i], shown'.expiring)
                 /\ ~InSeq(foods[i], shown'.expired)
            /\ expiryDate.day = today - 1 =>
                 /\ getDaysUntilExpiry(expiryDate, shown'.now) = Num(-1)
                 /\ InSeq(foods[i], shown'.expired)
                 /\ ~InSeq(foods[i], shown'.expiring)]_vars

(* C18: collection states with the same records (same id and the same      *)
(* value of every field) have the same fingerprint whatever the order in   *)
(* which the fields were assigned: an edit that changes no field value     *)
(* leaves the fingerprint as it was.  Stated for sessions whose load       *)
(* succeeded.                                                              *)
SameFieldValues(a, b) ==
  /\ Len(a) = Len(b)
  /\ \A i \in 1..Len(a) :
       a[i].id = b[i].id /\ a[i].val = b[i].val /\ a[i].date = b[i].date
C18_FingerprintNormalized ==
  [][\A type \in Types :
       (/\ loadState = "loaded"
        /\ Updated(type)
        /\ SameFieldValues(Data(type), DataNext(type))) =>
         createDataHash(DataNext(type)) = createDataHash(Data(type))]_vars

(* C19: once the user has stopped mutating, the payload persisted for a    *)
(* collection (in the gateway or in the local slot) eventually equals the  *)
(* working set.  In a state where load has succeeded, the guard reset has  *)
(* run, no timer is pending and no save is in flight, nothing more will    *)
(* happen without the user: the payload of a collection the user has       *)
(* mutated has to be persisted there, or to be what load read (the         *)
(* last-persisted fingerprint).                                            *)
Quiescent ==
  /\ loadState = "loaded"
  /\ guardTimer = NoGuard
  /\ \A type \in Types : ~saveTimeoutRef[type].on /\ inFlight[type] = <<>>
C19_EventuallyPersisted ==
  Quiescent =>
    \A type \in Types :
      ops[type] > 0 =>
        \/ gateway[type] = Json(Data(type))
        \/ localStorage[type] = Json(Data(type))
        \/ LastSave(type) = createDataHash(Data(type))

(* C20: a record added by a create stays in its collection until a delete: *)
(* every step that is not a delete of the collection keeps every record    *)
(* created in the session.                                                 *)
C20_CreatedRecordStays ==
  [][\A type \in Types :
       ~Deleted(type) =>
         \A i \in 1..Len(Data(type)) :
           Data(type)[i].id \in issuedIds[type] =>
             Present(DataNext(type), Data(type)[i].id)]_vars

(* C21: for each collection at most one save call is in flight at any      *)
(* time.  Stated for sessions whose load succeeded.                        *)
C21_OneSaveInFlight ==
  loadState = "loaded" => \A type \in Types : Len(inFlight[type]) <= 1

(* C22: the load of a new session returns, for each collection, the        *)
(* payload of the most recent completed write-back of the sessions before, *)
(* whether it went to the gateway or to the local slot.  Stated for        *)
(* write-backs that carry the record loaded from the gateway and a record  *)
(* created after it.                                                       *)
WroteBackACreate(type) ==
  /\ Len(lastWrite[type].s) > 1
  /\ lastWrite[type].s[1].id = 0
  /\ lastWrite[type].s[2].id \in issuedIds[type]
C22_RestartLoadsLastWrite ==
  [][(session > 1 /\ loadState = "loading" /\ loadState' = "loaded") =>
       \A type \in Types :
         WroteBackACreate(type) => DataNext(type) = lastWrite[type].s]_vars

====
